---- MODULE Spec2Model ----
(***************************************************************************)
(* A model of play.py, the LRC lyrics player: the LRC parser (parse_lrc),  *)
(* the timing transform shared by print_schedule and play_realtime, the    *)
(* realtime scheduler with its drift compensation, and main's validation.  *)
(*                                                                         *)
(* Times are Python floats in the source.  Here they are exact rationals   *)
(* in seconds, [n |-> numerator, d |-> denominator], d > 0, in lowest      *)
(* terms, so that equal times are equal values.  Text is a sequence of     *)
(* one-character strings.                                                  *)
(***************************************************************************)
EXTENDS Integers, Sequences, FiniteSets, TLC

VARIABLES
    \* parse_lrc
    src_lines,      \* the file's lines as written: each a sequence of pieces
    raw_lines,      \* raw.strip().splitlines(): the lines as characters
    line_no,        \* number of lines the for loop has consumed
    lyrics,         \* the list of entries being built
    parse_pc,       \* "lines" | "ends" | "last" | "done"
    \* the arguments of print_schedule and play_realtime
    config,         \* the settings read from the configuration
    offset,         \* --offset, in seconds
    start_time,     \* --start: <<seconds>>, or <<>> for None
    \* what the two modes compute for each entry, per speed multiplier
    sched_out,      \* print_schedule: [speed -> lines printed]
    rt_out,         \* play_realtime: [speed -> entries targeted]
    \* play_realtime
    genre_config,   \* the genre's settings
    speed_multiplier,
    wrap_width,     \* --wrap-width: <<columns>>, or <<>> for None
    now,            \* time.monotonic() - playback_start, as it really is
    idx,            \* index of the entry the loop is at (0-based)
    play_pc,        \* "entry" | "emit" | "subline" | "animate" | "pace" | "done"
    base_speed,
    absolute_start,
    elapsed,
    wait_time,
    slept,          \* <<seconds>> asked of the time.sleep of line 600, or <<>>
    overslept,      \* how much longer than asked that sleep took
    sub_lines,      \* the wrapped lines of the entry still to animate
    current_drift,
    current_speed,
    emitted,        \* the entries whose emission has begun, in order
    \* main
    args,           \* the command line, parsed
    file,           \* what is at args.file: [readable, entries]
    main_pc,        \* where main is
    genre_key,
    exported,       \* export_json has been called
    mode_begun,     \* "none" | "realtime" | "schedule": which one main called
    completions,    \* calls of animate_completion
    exit_status,    \* <<>> while running, then <<status>>
    interrupted,    \* <<>>, or <<entries emitted when KeyboardInterrupt was raised>>
    caught_in,      \* the frame whose except clause took it, or "none"
    \* the time codec
    sec,            \* the seconds handed to seconds_to_lrc_time
    lrc_time,       \* the text it returned
    back,           \* <<what lrc_time_to_seconds made of that text>>, or <<>>
    codec_pc,       \* "format" | "parse" | "done"
    \* export_json
    result,         \* the dictionary written: [words, captions]
    caption_no,     \* captions the loop has consumed
    export_pc       \* "loop" | "done"

parseVars == <<src_lines, raw_lines, line_no, lyrics, parse_pc>>
argVars == <<config, offset, start_time>>
schedVars == <<sched_out, rt_out>>

playArgVars == <<genre_config, speed_multiplier, wrap_width>>
playVars ==
    <<now, idx, play_pc, base_speed, absolute_start, elapsed, wait_time, slept,
      overslept, sub_lines, current_drift, current_speed, emitted>>

mainVars ==
    <<args, file, main_pc, genre_key, exported, mode_begun, completions, exit_status,
      interrupted, caught_in>>

codecVars == <<sec, lrc_time, back, codec_pc>>
exportVars == <<result, caption_no, export_pc>>
utilVars == <<codecVars, exportVars>>

\* what parse_lrc does not touch
callerVars == <<argVars, schedVars, playArgVars, playVars, mainVars, utilVars>>

vars == <<parseVars, argVars, schedVars, playArgVars, playVars, mainVars, utilVars>>

-----------------------------------------------------------------------------
(* Float arithmetic, as exact rationals.                                   *)

Abs(x) == IF x < 0 THEN -x ELSE x

RECURSIVE GCD(_, _)
GCD(a, b) == IF b = 0 THEN a ELSE GCD(b, a % b)

\* The rational n/d (d # 0) in lowest terms with a positive denominator.
R(n, d) ==
    LET g == GCD(Abs(n), Abs(d))
        sgn == IF d < 0 THEN -1 ELSE 1
    IN  [n |-> sgn * (n \div g), d |-> Abs(d) \div g]

RInt(k) == [n |-> k, d |-> 1]
RAdd(a, b) == R(a.n * b.d + b.n * a.d, a.d * b.d)
RSub(a, b) == R(a.n * b.d - b.n * a.d, a.d * b.d)
RMul(a, b) == R(a.n * b.n, a.d * b.d)
RDiv(a, b) == R(a.n * b.d, a.d * b.n)
RLt(a, b) == a.n * b.d < b.n * a.d
RLe(a, b) == a.n * b.d <= b.n * a.d
RMax(a, b) == IF RLt(a, b) THEN b ELSE a
RMin(a, b) == IF RLt(b, a) THEN b ELSE a

-----------------------------------------------------------------------------
(* Characters and the str methods parse_lrc uses.                          *)

Digits == <<"0", "1", "2", "3", "4", "5", "6", "7", "8", "9">>
IsDigit(c) == \E i \in 1..10 : Digits[i] = c
DigitVal(c) == (CHOOSE i \in 1..10 : Digits[i] = c) - 1

\* int(s) for a string of decimal digits.
RECURSIVE ToInt(_)
ToInt(s) ==
    IF s = <<>> THEN 0
    ELSE 10 * ToInt(SubSeq(s, 1, Len(s) - 1)) + DigitVal(s[Len(s)])

UpperCase == <<"A", "B", "E", "F", "I", "L", "M", "O", "R", "S", "T", "U", "Y">>
LowerCase == <<"a", "b", "e", "f", "i", "l", "m", "o", "r", "s", "t", "u", "y">>
\* re.IGNORECASE on the letters the metadata tags are made of.
Lower(c) ==
    IF \E i \in 1..Len(UpperCase) : UpperCase[i] = c
    THEN LowerCase[CHOOSE i \in 1..Len(UpperCase) : UpperCase[i] = c]
    ELSE c

IsSpace(c) == c \in {" ", "\t", "\r", "\n"}

RECURSIVE LStrip(_)
LStrip(s) == IF s # <<>> /\ IsSpace(Head(s)) THEN LStrip(Tail(s)) ELSE s
RECURSIVE RStrip(_)
RStrip(s) ==
    IF s # <<>> /\ IsSpace(s[Len(s)]) THEN RStrip(SubSeq(s, 1, Len(s) - 1)) ELSE s
\* str.strip()
Strip(s) == RStrip(LStrip(s))

-----------------------------------------------------------------------------
(* time_pattern = \[(\d{1,2}):(\d{2})\.(\d{2,3})\]                         *)

At(s, i) == IF i >= 1 /\ i <= Len(s) THEN s[i] ELSE ""
AllDigits(s, i, j) == j <= Len(s) /\ \A k \in i..j : IsDigit(s[k])

\* The match of time_pattern that starts at position i with a minutes group of
\* md digits and a fraction group of fd digits: its length, or 0.
MatchWith(s, i, md, fd) ==
    LET c == i + 1 + md      \* of ":"
        p == c + 3           \* of "."
        e == p + fd + 1      \* of "]"
    IN  IF /\ At(s, i) = "["
           /\ AllDigits(s, i + 1, i + md)
           /\ At(s, c) = ":"
           /\ AllDigits(s, c + 1, c + 2)
           /\ At(s, p) = "."
           /\ AllDigits(s, p + 1, p + fd)
           /\ At(s, e) = "]"
        THEN e - i + 1
        ELSE 0

\* The regex engine's match at position i: greedy quantifiers first.
\* [len, m, s, ms]: len = 0 when there is no match at i.
MatchAt(s, i) ==
    LET try(md, fd) == MatchWith(s, i, md, fd)
        pick == IF try(2, 3) > 0 THEN <<2, 3>>
                ELSE IF try(2, 2) > 0 THEN <<2, 2>>
                ELSE IF try(1, 3) > 0 THEN <<1, 3>>
                ELSE IF try(1, 2) > 0 THEN <<1, 2>>
                ELSE <<0, 0>>
        md == pick[1]
        fd == pick[2]
    IN  IF md = 0 THEN [len |-> 0, m |-> <<>>, s |-> <<>>, ms |-> <<>>]
        ELSE [len |-> try(md, fd),
              m   |-> SubSeq(s, i + 1, i + md),
              s   |-> SubSeq(s, i + md + 2, i + md + 3),
              ms  |-> SubSeq(s, i + md + 5, i + md + 4 + fd)]

\* time_pattern.findall(line): the groups of the non-overlapping matches, left
\* to right, scanning from position i.
RECURSIVE FindAllFrom(_, _)
FindAllFrom(s, i) ==
    IF i > Len(s) THEN <<>>
    ELSE LET mt == MatchAt(s, i)
         IN  IF mt.len > 0
             THEN <<[m |-> mt.m, s |-> mt.s, ms |-> mt.ms]>> \o FindAllFrom(s, i + mt.len)
             ELSE FindAllFrom(s, i + 1)

\* A parser that takes the first timestamp of a line only (re.search).
FindFirst(s) ==
    IF FindAllFrom(s, 1) = <<>> THEN <<>> ELSE <<Head(FindAllFrom(s, 1))>>

FindAll(s) == FindAllFrom(s, 1)

\* time_pattern.sub('', line): the line with every match removed.
RECURSIVE SubFrom(_, _)
SubFrom(s, i) ==
    IF i > Len(s) THEN <<>>
    ELSE LET mt == MatchAt(s, i)
         IN  IF mt.len > 0
             THEN SubFrom(s, i + mt.len)
             ELSE <<s[i]>> \o SubFrom(s, i + 1)

SubEmpty(s) == SubFrom(s, 1)

-----------------------------------------------------------------------------
(* meta_pattern = ^\[(ti|ar|al|by|offset|re|title|artist|album):  (re.I)   *)

MetaTags ==
    { <<"t", "i">>, <<"a", "r">>, <<"a", "l">>, <<"b", "y">>,
      <<"o", "f", "f", "s", "e", "t">>, <<"r", "e">>,
      <<"t", "i", "t", "l", "e">>, <<"a", "r", "t", "i", "s", "t">>,
      <<"a", "l", "b", "u", "m">> }

HasPrefixIgnoreCase(s, p) ==
    /\ Len(s) >= Len(p)
    /\ \A k \in 1..Len(p) : Lower(s[k]) = p[k]

\* meta_pattern.search(line)
IsMeta(s) ==
    \E tag \in MetaTags : HasPrefixIgnoreCase(s, <<"[">> \o tag \o <<":">>)

-----------------------------------------------------------------------------
(* parse_lrc                                                               *)

MaxLines == 3

(* The input text.  A line is written as its pieces, timestamps and runs of  *)
(* other characters, and handed to the parser as the characters they spell. *)
T(m, md, s, f, fd) ==
    [ts |-> TRUE, m |-> m, md |-> md, s |-> s, f |-> f, fd |-> fd, tx |-> <<>>]
X(chars) ==
    [ts |-> FALSE, m |-> 0, md |-> 0, s |-> 0, f |-> 0, fd |-> 0, tx |-> chars]

Rep(c, k) == [i \in 1..k |-> c]

\* k in decimal, w digits wide (w <= 3).
Dec(k, w) ==
    SubSeq(<<Digits[(k \div 100) + 1], Digits[((k \div 10) % 10) + 1], Digits[(k % 10) + 1]>>,
           4 - w, 3)

RenderPiece(p) ==
    IF p.ts
    THEN <<"[">> \o Dec(p.m, p.md) \o <<":">> \o Dec(p.s, 2) \o <<".">> \o Dec(p.f, p.fd) \o <<"]">>
    ELSE p.tx

RECURSIVE Render(_)
Render(ps) == IF ps = <<>> THEN <<>> ELSE RenderPiece(Head(ps)) \o Render(Tail(ps))

\* [00:01.00]hello[00:02.50]
HelloLine == <<T(0, 2, 1, 0, 2), X(<<"h", "e", "l", "l", "o">>), T(0, 2, 2, 50, 2)>>
\* [00:02.50] bye
ByeLine == <<T(0, 2, 2, 50, 2), X(<<" ", "b", "y", "e">>)>>
\* more
MoreLine == <<X(<<"m", "o", "r", "e">>)>>
\* [Ar:x]
ArtistTagLine == <<X(<<"[", "A", "r", ":", "x", "]">>)>>
\* a line of blanks
BlankLine == <<X(<<" ", " ">>)>>
\* [1:00.500] and 20 characters
Text20Line == <<T(1, 1, 0, 500, 3), X(Rep("u", 20))>>
\* [00:00.50] and 50 characters
Text50Line == <<T(0, 2, 0, 50, 2), X(Rep("x", 50))>>
\* [0:5.0]n : no timestamp, the seconds have one digit
NearMissLine == <<X(<<"[", "0", ":", "5", ".", "0", "]", "n">>)>>

LinePool ==
    { HelloLine, ByeLine, MoreLine, ArtistTagLine, BlankLine, Text20Line,
      Text50Line, NearMissLine }

Files == UNION { [1..k -> LinePool] : k \in 0..MaxLines }

\* raw.strip().splitlines(): the text read has no blanks at either end.
IsStripped(f) ==
    \/ f = <<>>
    \/ /\ ~IsSpace(Head(Render(f[1])))
       /\ ~IsSpace(Render(f[Len(f)])[Len(Render(f[Len(f)]))])

\* start_time of one timestamp match (m, s, ms).
StartTime(g) ==
    LET minutes == ToInt(g.m)
        seconds == ToInt(g.s)
        frac == IF Len(g.ms) = 2 THEN R(ToInt(g.ms), 100) ELSE R(ToInt(g.ms), 1000)
    IN  RAdd(RInt(minutes * 60 + seconds), frac)

Placeholder == RInt(3)

\* The entries one line appends: one per timestamp, all with the line's text.
NewEntries(timestamps, text) ==
    [j \in 1..Len(timestamps) |->
        [start |-> StartTime(timestamps[j]),
         end   |-> RAdd(StartTime(timestamps[j]), Placeholder),
         text  |-> text]]

\* A parser that continues the first entry: lyrics[0] for lyrics[-1].
AppendToFirst(ls, text) ==
    [ls EXCEPT ![1].text = @ \o <<"\n">> \o text]

\* lyrics[-1]["text"] += "\n" + text
AppendToLast(ls, text) ==
    [ls EXCEPT ![Len(ls)].text = @ \o <<"\n">> \o text]

\* A parser that does not sort.
Unsorted(s) == s

\* lyrics.sort(key=lambda x: x["start"]): stable.
RECURSIVE InsertByStart(_, _)
InsertByStart(e, s) ==
    IF s = <<>> THEN <<e>>
    ELSE IF RLt(e.start, s[Len(s)].start)
         THEN InsertByStart(e, SubSeq(s, 1, Len(s) - 1)) \o <<s[Len(s)]>>
         ELSE s \o <<e>>
RECURSIVE InsertionSort(_)
InsertionSort(s) ==
    IF s = <<>> THEN <<>>
    ELSE InsertByStart(s[Len(s)], InsertionSort(SubSeq(s, 1, Len(s) - 1)))
SortByStart(s) == InsertionSort(s)

\* for i in range(len(lyrics) - 1): lyrics[i]["end"] = lyrics[i + 1]["start"]
UpdateEnds(ls) ==
    [i \in 1..Len(ls) |->
        IF i < Len(ls) THEN [ls[i] EXCEPT !.end = ls[i + 1].start] ELSE ls[i]]

\* max(2.0, len(last["text"]) * 0.1)
EstimatedDuration(text) == RMax(RInt(2), R(Len(text), 10))

\* The last entry's end after the "if lyrics:" block.
LastEnd(last) ==
    IF RLe(last.end, last.start)
    THEN RAdd(last.start, EstimatedDuration(last.text))
    ELSE last.end

\* DEFAULT_CONFIG, the settings the model reads.
Hiphop == <<"h", "i", "p", "h", "o", "p">>
Rap == <<"r", "a", "p">>
DefaultGenres ==
    [g \in {Hiphop, Rap} |-> [speed |-> IF g = Rap THEN R(8, 1000) ELSE R(12, 1000)]]
DefaultConfig ==
    [lrc_start_minute |-> 0, lrc_start_second |-> 0, show_time_display |-> TRUE,
     wrap_width |-> 48, margin_between_lines |-> R(3, 20), block_margin |-> R(2, 5),
     default_genre |-> Hiphop, genres |-> DefaultGenres]

\* main is not what runs.
NoMain ==
    /\ args = <<>> /\ file = <<>> /\ main_pc = "off" /\ genre_key = <<>>
    /\ exported = FALSE /\ mode_begun = "none" /\ completions = 0
    /\ exit_status = <<>>
    /\ interrupted = <<>> /\ caught_in = "none"

\* Neither the codec nor export_json is what runs.
NoUtil ==
    /\ sec = RInt(0) /\ lrc_time = <<>> /\ back = <<>> /\ codec_pc = "off"
    /\ result = [words |-> <<>>, captions |-> <<>>] /\ caption_no = 0
    /\ export_pc = "off"

\* play_realtime has not been called.
NoPlayback ==
    /\ genre_config = [speed |-> R(12, 1000)]
    /\ speed_multiplier = RInt(1)
    /\ wrap_width = <<>>
    /\ now = RInt(0) /\ idx = 0 /\ play_pc = "off"
    /\ base_speed = RInt(0) /\ absolute_start = RInt(0)
    /\ elapsed = RInt(0) /\ wait_time = RInt(0)
    /\ slept = <<>> /\ overslept = RInt(0)
    /\ sub_lines = <<>>
    /\ current_drift = RInt(0) /\ current_speed = RInt(0)
    /\ emitted = <<>>

CurLine == Strip(raw_lines[line_no + 1])

InitParse ==
    /\ src_lines \in { f \in Files : IsStripped(f) }
    /\ raw_lines = [i \in 1..Len(src_lines) |-> Render(src_lines[i])]
    /\ line_no = 0
    /\ lyrics = <<>>
    /\ parse_pc = "lines"
    /\ config = DefaultConfig /\ offset = RInt(0) /\ start_time = <<>>
    /\ sched_out = <<>> /\ rt_out = <<>>
    /\ NoPlayback
    /\ NoMain
    /\ NoUtil

InLoop == parse_pc = "lines" /\ line_no < Len(raw_lines)

\* if not line: continue
SkipBlank ==
    /\ InLoop
    /\ CurLine = <<>>
    /\ line_no' = line_no + 1
    /\ UNCHANGED <<src_lines, raw_lines, lyrics, parse_pc, callerVars>>

\* if meta_pattern.search(line): continue
SkipMeta ==
    /\ InLoop
    /\ CurLine # <<>>
    /\ IsMeta(CurLine)
    /\ line_no' = line_no + 1
    /\ UNCHANGED <<src_lines, raw_lines, lyrics, parse_pc, callerVars>>

\* if not timestamps: ... continue
NoTimestampLine ==
    /\ InLoop
    /\ CurLine # <<>>
    /\ ~IsMeta(CurLine)
    /\ FindAll(CurLine) = <<>>
    /\ LET text == Strip(SubEmpty(CurLine))
       IN  lyrics' = IF lyrics # <<>> /\ text # <<>>
                     THEN AppendToLast(lyrics, text)
                     ELSE lyrics
    /\ line_no' = line_no + 1
    /\ UNCHANGED <<src_lines, raw_lines, parse_pc, callerVars>>

\* for (m, s, ms) in timestamps: ... lyrics.append(entry)
TimestampLine ==
    /\ InLoop
    /\ CurLine # <<>>
    /\ ~IsMeta(CurLine)
    /\ FindAll(CurLine) # <<>>
    /\ lyrics' = lyrics \o NewEntries(FindAll(CurLine), Strip(SubEmpty(CurLine)))
    /\ line_no' = line_no + 1
    /\ UNCHANGED <<src_lines, raw_lines, parse_pc, callerVars>>

SortLyrics ==
    /\ parse_pc = "lines"
    /\ line_no = Len(raw_lines)
    /\ lyrics' = SortByStart(lyrics)
    /\ parse_pc' = "ends"
    /\ UNCHANGED <<src_lines, raw_lines, line_no, callerVars>>

SetEnds ==
    /\ parse_pc = "ends"
    /\ lyrics' = UpdateEnds(lyrics)
    /\ parse_pc' = "last"
    /\ UNCHANGED <<src_lines, raw_lines, line_no, callerVars>>

\* if lyrics: ... ; return lyrics
EstimateLast ==
    /\ parse_pc = "last"
    /\ lyrics' = IF lyrics # <<>>
                 THEN [lyrics EXCEPT ![Len(lyrics)].end = LastEnd(lyrics[Len(lyrics)])]
                 ELSE lyrics
    /\ parse_pc' = "done"
    /\ UNCHANGED <<src_lines, raw_lines, line_no, callerVars>>

NextParse ==
    \/ SkipBlank
    \/ SkipMeta
    \/ NoTimestampLine
    \/ TimestampLine
    \/ SortLyrics
    \/ SetEnds
    \/ EstimateLast

SpecParse == InitParse /\ [][NextParse]_vars

-----------------------------------------------------------------------------
(* The timing transform of print_schedule and play_realtime.               *)

MaxEntries == 3

\* x // 1 for a float x >= or < 0: Python floors.
Floor(x) == x.n \div x.d

\* format_time_display(seconds, config), as <<minutes, secs>>: the two numbers
\* the f-string prints.
FormatTimeDisplay(seconds, cfg) ==
    LET start_offset == cfg.lrc_start_minute * 60 + cfg.lrc_start_second
        total_seconds == RAdd(seconds, RInt(start_offset))
        minutes == Floor(RDiv(total_seconds, RInt(60)))
        secs == Floor(RSub(total_seconds, RInt(60 * minutes)))
    IN  <<minutes, secs>>

\* baseline = start_time if start_time is not None else 0.0
Baseline(st) == IF st # <<>> THEN st[1] ELSE RInt(0)

\* A transform that scales the timestamp instead of the time since the first.
AdjustedStartScaled(ls, i, off, st, speed) ==
    RAdd(RAdd(Baseline(st), RSub(RDiv(ls[i].start, speed), ls[1].start)), off)

\* print_schedule's adjusted_start of entry i (1-based).
AdjustedStart(ls, i, off, st, speed) ==
    LET first_time == ls[1].start
        baseline == Baseline(st)
        relative_start == RDiv(RSub(ls[i].start, first_time), speed)
    IN  RAdd(RAdd(baseline, relative_start), off)

\* A scheduler that lets the speed multiplier scale the offset too.
AbsoluteStartOffsetScaled(ls, i, off, st, speed) ==
    RAdd(Baseline(st), RDiv(RAdd(RSub(ls[i].start, ls[1].start), off), speed))

\* play_realtime's absolute_start of entry i (1-based).
AbsoluteStart(ls, i, off, st, speed) ==
    LET first_time == ls[1].start
        baseline == Baseline(st)
        relative_start == RDiv(RSub(ls[i].start, first_time), speed)
    IN  RAdd(RAdd(baseline, relative_start), off)

\* What print_schedule prints for each entry: the timestamp it formats and the
\* (mm:ss) readout beside it.
PrintedSchedule(ls, cfg, off, st, speed) ==
    [i \in 1..Len(ls) |->
        [start |-> AdjustedStart(ls, i, off, st, speed),
         time_display |-> <<FormatTimeDisplay(AdjustedStart(ls, i, off, st, speed), cfg)>>]]

\* What play_realtime targets for each entry, and the readout it shows (<<>>
\* when show_time_display is off).
RealtimeTargets(ls, cfg, off, st, speed) ==
    [i \in 1..Len(ls) |->
        [start |-> AbsoluteStart(ls, i, off, st, speed),
         time_display |->
            IF cfg.show_time_display
            THEN <<FormatTimeDisplay(AbsoluteStart(ls, i, off, st, speed), cfg)>>
            ELSE <<>>]]

\* Entry sequences as parse_lrc returns them: sorted, each end the next start,
\* the last end the placeholder.
StartPool == {R(1, 2), R(5, 2), RInt(61)}
Finalized(starts) ==
    [i \in 1..Len(starts) |->
        [start |-> starts[i],
         end   |-> IF i < Len(starts) THEN starts[i + 1] ELSE RAdd(starts[i], Placeholder),
         text  |-> <<"l", "a">>]]
ParsedLyrics ==
    { Finalized(ss) : ss \in
        { q \in UNION { [1..k -> StartPool] : k \in 1..MaxEntries } :
            \A i \in 1..(Len(q) - 1) : RLe(q[i], q[i + 1]) } }

Speeds == {RInt(1), R(3, 2), RInt(2)}
Offsets == {RInt(0), R(-1, 2), R(5, 4)}
StartTimes == {<<>>, <<RInt(0)>>, <<RInt(2)>>}
Configs ==
    [lrc_start_minute : {0, 1}, lrc_start_second : {0, 30},
     show_time_display : BOOLEAN,
     wrap_width : {48}, margin_between_lines : {R(3, 20)}, block_margin : {R(2, 5)},
     default_genre : {Hiphop}, genres : {DefaultGenres}]

NotRun == [sp \in Speeds |-> <<>>]

InitSched ==
    /\ src_lines = <<>> /\ raw_lines = <<>> /\ line_no = 0
    /\ parse_pc = "done"
    /\ lyrics \in ParsedLyrics
    /\ config \in { c \in Configs : c.lrc_start_minute = 0 <=> c.lrc_start_second = 0 }
    /\ offset \in Offsets
    /\ start_time \in StartTimes
    /\ sched_out = NotRun
    /\ rt_out = NotRun
    /\ NoPlayback
    /\ NoMain
    /\ NoUtil

\* A run of print_schedule with speed multiplier sp.
PrintSchedule(sp) ==
    /\ lyrics # <<>>
    /\ sched_out[sp] = <<>>
    /\ sched_out' = [sched_out EXCEPT ![sp] = PrintedSchedule(lyrics, config, offset, start_time, sp)]
    /\ UNCHANGED <<parseVars, argVars, rt_out, playArgVars, playVars, mainVars, utilVars>>

\* The targets of a run of play_realtime with speed multiplier sp.
PlayRealtimeTargets(sp) ==
    /\ lyrics # <<>>
    /\ rt_out[sp] = <<>>
    /\ rt_out' = [rt_out EXCEPT ![sp] = RealtimeTargets(lyrics, config, offset, start_time, sp)]
    /\ UNCHANGED <<parseVars, argVars, sched_out, playArgVars, playVars, mainVars, utilVars>>

NextSched ==
    \/ \E sp \in Speeds : PrintSchedule(sp)
    \/ \E sp \in Speeds : PlayRealtimeTargets(sp)

SpecSched == InitSched /\ [][NextSched]_vars

-----------------------------------------------------------------------------
(* wrap_text                                                               *)

\* s.split(c): the pieces between the occurrences of c, empty ones kept.
RECURSIVE SplitOn(_, _)
SplitOn(s, c) ==
    IF \A i \in 1..Len(s) : s[i] # c THEN <<s>>
    ELSE LET k == CHOOSE i \in 1..Len(s) : s[i] = c /\ \A j \in 1..(i - 1) : s[j] # c
         IN  <<SubSeq(s, 1, k - 1)>> \o SplitOn(SubSeq(s, k + 1, Len(s)), c)

\* s.split(): the words between runs of white space.
RECURSIVE SplitWords(_)
SplitWords(s) ==
    LET t == LStrip(s)
    IN  IF t = <<>> THEN <<>>
        ELSE IF \A i \in 1..Len(t) : ~IsSpace(t[i]) THEN <<t>>
        ELSE LET k == CHOOSE i \in 1..Len(t) :
                          IsSpace(t[i]) /\ \A j \in 1..(i - 1) : ~IsSpace(t[j])
             IN  <<SubSeq(t, 1, k - 1)>> \o SplitWords(SubSeq(t, k + 1, Len(t)))

\* The "for word in words" loop: the lines flushed, then the line in hand.
RECURSIVE WrapWords(_, _, _)
WrapWords(words, current_line, width) ==
    IF words = <<>>
    THEN IF current_line # <<>> THEN <<current_line>> ELSE <<>>
    ELSE LET word == Head(words)
             candidate == IF current_line # <<>>
                          THEN current_line \o <<" ">> \o word
                          ELSE word
         IN  IF Len(candidate) <= width
             THEN WrapWords(Tail(words), candidate, width)
             ELSE (IF current_line # <<>> THEN <<current_line>> ELSE <<>>)
                  \o WrapWords(Tail(words), word, width)

RECURSIVE WrapLines(_, _)
WrapLines(lines, width) ==
    IF lines = <<>> THEN <<>>
    ELSE (IF Len(Head(lines)) <= width
          THEN <<Head(lines)>>
          ELSE WrapWords(SplitWords(Head(lines)), <<>>, width))
         \o WrapLines(Tail(lines), width)

WrapText(text, width) == WrapLines(SplitOn(text, "\n"), width)

-----------------------------------------------------------------------------
(* play_realtime                                                           *)

\* The wrapped lines of an entry, in the order the two nested loops animate them.
RECURSIVE WrapEach(_, _)
WrapEach(text_lines, width) ==
    IF text_lines = <<>> THEN <<>>
    ELSE WrapText(Head(text_lines), width) \o WrapEach(Tail(text_lines), width)

SubLines(text, width) == WrapEach(SplitOn(text, "\n"), width)

\* A compensation whose catch-up factor is not capped.
CurrentSpeedUncapped(base, drift) ==
    IF RLt(RInt(0), drift)
    THEN RMax(RDiv(base, RAdd(RInt(1), RMul(drift, RInt(2)))), R(1, 1000))
    ELSE base

\* current_speed for a wrapped line, from the drift measured before it.
CurrentSpeed(base, drift) ==
    IF RLt(RInt(0), drift)
    THEN LET catchup == RMin(RInt(3), RAdd(RInt(1), RMul(drift, RInt(2))))
         IN  RMax(RDiv(base, catchup), R(1, 1000))
    ELSE base

\* A wait that is the gap to the previous entry's target, whatever time it is.
WaitFromPrevious(target, t) == RSub(target, absolute_start)

\* wait_time = absolute_start - elapsed
WaitTime(target, t) == RSub(target, t)

\* Entry sequences as parse_lrc returns them, with their texts.
WithTexts(starts, texts) ==
    [i \in 1..Len(starts) |-> [Finalized(starts)[i] EXCEPT !.text = texts[i]]]

PlayLyrics ==
    { WithTexts(<<R(1, 2)>>, << <<"l", "a">> >>),
      WithTexts(<<R(1, 2), R(5, 2)>>,
                << <<"a", "a", " ", "b", "b">>, <<"a", "\n", "b">> >>),
      WithTexts(<<RInt(0), RInt(0), RInt(4)>>,
                << <<"a", "a", " ", "b", "b">>, <<"l", "a">>, <<"(", "o", ")">> >>) }

\* speed of the genres rap and classical
GenreConfigs == { [speed |-> R(8, 1000)], [speed |-> R(85, 1000)] }
PlaySpeeds == {RInt(1), RInt(4), RInt(10)}
PlayOffsets == {RInt(0), R(5, 4)}
PlayStartTimes == {<<>>, <<RInt(2)>>}
WrapWidths == {<<>>, <<3>>}

\* How long time.sleep may take beyond what it was asked.
Oversleeps == {RInt(0), R(1, 100)}
\* How long the animation of one wrapped line may take, printing included.
AnimationTimes == {R(1, 10), R(17, 20), RInt(3)}

InitPlay ==
    /\ src_lines = <<>> /\ raw_lines = <<>> /\ line_no = 0
    /\ parse_pc = "done"
    /\ lyrics \in PlayLyrics
    /\ config = DefaultConfig
    /\ offset \in PlayOffsets
    /\ start_time \in PlayStartTimes
    /\ sched_out = <<>> /\ rt_out = <<>>
    /\ genre_config \in GenreConfigs
    /\ speed_multiplier \in PlaySpeeds
    /\ wrap_width \in WrapWidths
    /\ base_speed = RDiv(genre_config.speed, speed_multiplier)
    /\ now = RInt(0)
    /\ idx = 0
    /\ play_pc = "entry"
    /\ absolute_start = RInt(0)
    /\ elapsed = RInt(0) /\ wait_time = RInt(0)
    /\ slept = <<>> /\ overslept = RInt(0)
    /\ sub_lines = <<>>
    /\ current_drift = RInt(0) /\ current_speed = RInt(0)
    /\ emitted = <<>>
    /\ NoMain
    /\ NoUtil

playFixed ==
    <<parseVars, argVars, schedVars, playArgVars, base_speed, mainVars, utilVars>>

Target(i) == AbsoluteStart(lyrics, i + 1, offset, start_time, speed_multiplier)

\* The loop reaches an entry whose absolute start is still ahead: it sleeps.
WaitForStart ==
    /\ play_pc = "entry"
    /\ idx < Len(lyrics)
    /\ RLt(RInt(0), WaitTime(Target(idx), now))
    /\ absolute_start' = Target(idx)
    /\ elapsed' = now
    /\ wait_time' = WaitTime(Target(idx), now)
    /\ slept' = <<wait_time'>>
    /\ \E over \in Oversleeps :
          /\ overslept' = over
          /\ now' = RAdd(RAdd(now, wait_time'), over)
    /\ play_pc' = "emit"
    /\ UNCHANGED <<playFixed, idx, sub_lines, current_drift, current_speed, emitted>>

\* The loop reaches an entry whose absolute start is not ahead: no sleep.
StartLate ==
    /\ play_pc = "entry"
    /\ idx < Len(lyrics)
    /\ ~RLt(RInt(0), WaitTime(Target(idx), now))
    /\ absolute_start' = Target(idx)
    /\ elapsed' = now
    /\ wait_time' = WaitTime(Target(idx), now)
    /\ slept' = <<>>
    /\ overslept' = RInt(0)
    /\ play_pc' = "emit"
    /\ UNCHANGED <<playFixed, now, idx, sub_lines, current_drift, current_speed, emitted>>

\* The entry's emission begins: the time readout, then its wrapped lines.
BeginEntry ==
    /\ play_pc = "emit"
    /\ emitted' = Append(emitted, idx)
    /\ LET wrap_w == IF wrap_width # <<>> THEN wrap_width[1] ELSE config.wrap_width
       IN  sub_lines' = SubLines(lyrics[idx + 1].text, wrap_w)
    /\ play_pc' = IF sub_lines' = <<>> THEN "pace" ELSE "subline"
    /\ UNCHANGED <<playFixed, now, idx, absolute_start, elapsed, wait_time, slept,
                   overslept, current_drift, current_speed>>

\* Before a wrapped line: the drift, and the speed for this line.
MeasureDrift ==
    /\ play_pc = "subline"
    /\ current_drift' = RSub(now, absolute_start)
    /\ current_speed' = CurrentSpeed(base_speed, current_drift')
    /\ play_pc' = "animate"
    /\ UNCHANGED <<playFixed, now, idx, absolute_start, elapsed, wait_time, slept,
                   overslept, sub_lines, emitted>>

\* animate_text on the wrapped line, print(), time.sleep(margin_between_lines).
AnimateSubLine ==
    /\ play_pc = "animate"
    /\ \E took \in AnimationTimes :
          now' = RAdd(RAdd(now, took), config.margin_between_lines)
    /\ sub_lines' = Tail(sub_lines)
    /\ play_pc' = IF sub_lines' = <<>> THEN "pace" ELSE "subline"
    /\ UNCHANGED <<playFixed, idx, absolute_start, elapsed, wait_time, slept,
                   overslept, current_drift, current_speed, emitted>>

\* if idx < len(lyrics) - 1: sleep up to block_margin, not past the next start.
PaceToNext ==
    /\ play_pc = "pace"
    /\ idx < Len(lyrics) - 1
    /\ elapsed' = now
    /\ LET next_absolute_start == Target(idx + 1)
           remaining == RSub(next_absolute_start, now)
           extra_sleep == RMin(config.block_margin, RMax(RInt(0), remaining))
       IN  now' = IF RLt(RInt(0), extra_sleep) THEN RAdd(now, extra_sleep) ELSE now
    /\ idx' = idx + 1
    /\ play_pc' = "entry"
    /\ UNCHANGED <<playFixed, absolute_start, wait_time, slept, overslept, sub_lines,
                   current_drift, current_speed, emitted>>

\* elif block_margin > 0: time.sleep(block_margin); the loop ends.
TrailingPause ==
    /\ play_pc = "pace"
    /\ idx = Len(lyrics) - 1
    /\ now' = IF RLt(RInt(0), config.block_margin)
              THEN RAdd(now, config.block_margin)
              ELSE now
    /\ idx' = idx + 1
    /\ play_pc' = "done"
    /\ UNCHANGED <<playFixed, absolute_start, elapsed, wait_time, slept, overslept,
                   sub_lines, current_drift, current_speed, emitted>>

NextPlay ==
    \/ WaitForStart
    \/ StartLate
    \/ BeginEntry
    \/ MeasureDrift
    \/ AnimateSubLine
    \/ PaceToNext
    \/ TrailingPause

SpecPlay == InitPlay /\ [][NextPlay]_vars

-----------------------------------------------------------------------------
(* main                                                                    *)

\* float("nan"), which argparse's type=float accepts: the one float here that
\* is no rational.  Every comparison with it is false.
NaN == [n |-> 0, d |-> 0]
IsNaN(x) == x.d = 0

\* x <= 0 for a float x
LeZero(x) == ~IsNaN(x) /\ RLe(x, RInt(0))

\* speed_multiplier <= 0
SpeedRejectedBy(x) == LeZero(x)

\* str.lower() of a genre name
LowerName(name) == [i \in 1..Len(name) |-> Lower(name[i])]

\* (args.genre or config.get("default_genre", "hiphop")).lower()
GenreKey(a, cfg) ==
    LowerName(IF a.genre # <<>> THEN a.genre ELSE cfg.default_genre)

Ska == <<"s", "k", "a">>

\* A time argument: absent, a text parse_time_input reads as v seconds, or a
\* text float() and int() refuse.
TimeArgs == {<<>>, <<[ok |-> TRUE, v |-> R(5, 4)]>>, <<[ok |-> FALSE, v |-> RInt(0)]>>}

Args ==
    [genre : {<<>>, <<"R", "a", "p">>, Ska},
     realtime : BOOLEAN,
     offset : TimeArgs,
     start : {<<>>, <<[ok |-> TRUE, v |-> RInt(2)]>>},
     export_json : BOOLEAN,
     speed : {<<>>, <<RInt(-1)>>, <<RInt(0)>>, <<R(3, 2)>>, <<NaN>>}]

\* The file named on the command line: unreadable, or what parse_lrc makes of it.
InputFiles ==
    {[readable |-> FALSE, entries |-> <<>>]}
    \cup {[readable |-> TRUE, entries |-> ls] : ls \in PlayLyrics \cup {<<>>}}

MainConfigs == {DefaultConfig, [DefaultConfig EXCEPT !.default_genre = Ska]}

InitMain ==
    /\ src_lines = <<>> /\ raw_lines = <<>> /\ line_no = 0 /\ parse_pc = "off"
    /\ lyrics = <<>>
    /\ config \in MainConfigs
    /\ offset = RInt(0) /\ start_time = <<>>
    /\ sched_out = <<>> /\ rt_out = <<>>
    /\ NoPlayback
    /\ args \in Args
    /\ file \in InputFiles
    /\ main_pc = "genre"
    /\ genre_key = <<>>
    /\ exported = FALSE
    /\ mode_begun = "none"
    /\ completions = 0
    /\ exit_status = <<>>
    /\ interrupted = <<>>
    /\ caught_in = "none"
    /\ NoUtil

\* What play_realtime keeps to itself: main sees of a mode only the entries it
\* emits.
playLocals ==
    <<now, idx, play_pc, base_speed, absolute_start, elapsed, wait_time, slept,
      overslept, sub_lines, current_drift, current_speed>>

\* How far the mode has got, and the interrupt.
modeVars == <<emitted, interrupted, caught_in>>

mainFixed ==
    <<src_lines, raw_lines, line_no, parse_pc, config, schedVars, wrap_width,
      playLocals, args, file, utilVars>>

\* sys.exit(status), or the interpreter's exit on an uncaught exception.
Exit(status) ==
    /\ main_pc' = "exited"
    /\ exit_status' = <<status>>

\* if genre_key not in config["genres"]: list the genres; sys.exit(1)
GenreUnknown ==
    /\ main_pc = "genre"
    /\ GenreKey(args, config) \notin DOMAIN config.genres
    /\ genre_key' = GenreKey(args, config)
    /\ Exit(1)
    /\ UNCHANGED <<mainFixed, modeVars, lyrics, offset, start_time, genre_config,
                   speed_multiplier, exported, mode_begun, completions>>

\* genre_config = config["genres"][genre_key]
GenreFound ==
    /\ main_pc = "genre"
    /\ GenreKey(args, config) \in DOMAIN config.genres
    /\ genre_key' = GenreKey(args, config)
    /\ genre_config' = config.genres[genre_key']
    /\ main_pc' = "times"
    /\ UNCHANGED <<mainFixed, modeVars, lyrics, offset, start_time, speed_multiplier,
                   exported, mode_begun, completions, exit_status>>

\* offset and start_time from --offset and --start
TimesParsed ==
    /\ main_pc = "times"
    /\ args.offset # <<>> => args.offset[1].ok
    /\ args.start # <<>> => args.start[1].ok
    /\ offset' = IF args.offset # <<>> THEN args.offset[1].v ELSE RInt(0)
    /\ start_time' = IF args.start # <<>> THEN <<args.start[1].v>> ELSE <<>>
    /\ main_pc' = "speed"
    /\ UNCHANGED <<mainFixed, modeVars, lyrics, genre_config, speed_multiplier, genre_key,
                   exported, mode_begun, completions, exit_status>>

\* parse_time_input raises ValueError: nothing catches it.
TimesRefused ==
    /\ main_pc = "times"
    /\ \/ args.offset # <<>> /\ ~args.offset[1].ok
       \/ args.start # <<>> /\ ~args.start[1].ok
    /\ Exit(1)
    /\ UNCHANGED <<mainFixed, modeVars, lyrics, offset, start_time, genre_config,
                   speed_multiplier, genre_key, exported, mode_begun, completions>>

SpeedArg == IF args.speed # <<>> THEN args.speed[1] ELSE RInt(1)

\* if speed_multiplier <= 0: sys.exit(1)
SpeedRejected ==
    /\ main_pc = "speed"
    /\ SpeedRejectedBy(SpeedArg)
    /\ speed_multiplier' = SpeedArg
    /\ Exit(1)
    /\ UNCHANGED <<mainFixed, modeVars, lyrics, offset, start_time, genre_config, genre_key,
                   exported, mode_begun, completions>>

\* the banner and animate_loading follow
SpeedAccepted ==
    /\ main_pc = "speed"
    /\ ~SpeedRejectedBy(SpeedArg)
    /\ speed_multiplier' = SpeedArg
    /\ main_pc' = "parse"
    /\ UNCHANGED <<mainFixed, modeVars, lyrics, offset, start_time, genre_config, genre_key,
                   exported, mode_begun, completions, exit_status>>

\* parse_lrc exits on a file it cannot read.
ParseUnreadable ==
    /\ main_pc = "parse"
    /\ ~file.readable
    /\ Exit(1)
    /\ UNCHANGED <<mainFixed, modeVars, lyrics, offset, start_time, genre_config,
                   speed_multiplier, genre_key, exported, mode_begun, completions>>

\* if not lyrics: sys.exit(1)
ParseEmpty ==
    /\ main_pc = "parse"
    /\ file.readable
    /\ file.entries = <<>>
    /\ lyrics' = file.entries
    /\ Exit(1)
    /\ UNCHANGED <<mainFixed, modeVars, offset, start_time, genre_config, speed_multiplier,
                   genre_key, exported, mode_begun, completions>>

ParseOk ==
    /\ main_pc = "parse"
    /\ file.readable
    /\ file.entries # <<>>
    /\ lyrics' = file.entries
    /\ main_pc' = "export"
    /\ UNCHANGED <<mainFixed, modeVars, offset, start_time, genre_config, speed_multiplier,
                   genre_key, exported, mode_begun, completions, exit_status>>

\* if args.export_json: export_json(...)
Export ==
    /\ main_pc = "export"
    /\ exported' = args.export_json
    /\ main_pc' = "try"
    /\ UNCHANGED <<mainFixed, modeVars, lyrics, offset, start_time, genre_config,
                   speed_multiplier, genre_key, mode_begun, completions, exit_status>>

\* The frames on the stack while a mode runs, innermost first.
CallStack(mode) ==
    <<IF mode = "realtime" THEN "play_realtime" ELSE "print_schedule", "main">>

\* The frames with an except clause for KeyboardInterrupt around the running
\* call: the try statement of main.  Neither mode has a try statement.
Handlers == {"main"}

\* A stack whose innermost frame takes the exception.
InnermostFrame(stack) == stack[1]

\* The innermost frame of the stack that handles KeyboardInterrupt.
Handler(stack) ==
    LET handling == {i \in DOMAIN stack : stack[i] \in Handlers}
    IN  IF handling = {} THEN "none"
        ELSE stack[CHOOSE i \in handling : \A j \in handling : i <= j]

\* try: play_realtime(...) or print_schedule(...)
BeginMode ==
    /\ main_pc = "try"
    /\ mode_begun' = IF args.realtime THEN "realtime" ELSE "schedule"
    /\ main_pc' = "running"
    /\ UNCHANGED <<mainFixed, modeVars, lyrics, offset, start_time, genre_config,
                   speed_multiplier, genre_key, exported, completions, exit_status>>

\* The mode's loop emits its next entry: print_schedule prints it,
\* play_realtime waits for its start and animates it.
ModeEmits ==
    /\ main_pc = "running"
    /\ ~(IsNaN(speed_multiplier) /\ mode_begun = "schedule")
    /\ Len(emitted) < Len(lyrics)
    /\ emitted' = Append(emitted, Len(emitted))
    /\ UNCHANGED <<mainFixed, lyrics, offset, start_time, genre_config,
                   speed_multiplier, genre_key, exported, mode_begun, completions,
                   exit_status, main_pc, interrupted, caught_in>>

\* KeyboardInterrupt is raised in the mode, wherever it is: before the first
\* entry, in the middle of one, or after the last.  It unwinds to the frame
\* that handles it.  A mode that handled it itself would carry on.
Interrupt ==
    /\ main_pc = "running"
    /\ interrupted = <<>>
    /\ interrupted' = <<Len(emitted)>>
    /\ caught_in' = Handler(CallStack(mode_begun))
    /\ main_pc' = IF caught_in' = "main" THEN "except" ELSE "running"
    /\ UNCHANGED <<mainFixed, lyrics, offset, start_time, genre_config,
                   speed_multiplier, genre_key, exported, mode_begun, completions,
                   exit_status, emitted>>

\* except KeyboardInterrupt: print the notice; on to the completion bar.
Caught ==
    /\ main_pc = "except"
    /\ main_pc' = "completion"
    /\ UNCHANGED <<mainFixed, modeVars, lyrics, offset, start_time, genre_config,
                   speed_multiplier, genre_key, exported, mode_begun, completions,
                   exit_status>>

\* The mode returns after its last entry: on to the completion bar.
\* print_schedule never returns with a NaN multiplier: format_time_display
\* raises on the first entry.
ModeEnds ==
    /\ main_pc = "running"
    /\ ~(IsNaN(speed_multiplier) /\ mode_begun = "schedule")
    /\ Len(emitted) = Len(lyrics)
    /\ main_pc' = "completion"
    /\ UNCHANGED <<mainFixed, modeVars, lyrics, offset, start_time, genre_config,
                   speed_multiplier, genre_key, exported, mode_begun, completions,
                   exit_status>>

\* With a NaN multiplier int() or time.sleep() may raise ValueError in the mode:
\* only KeyboardInterrupt is caught.
ModeRaises ==
    /\ main_pc = "running"
    /\ IsNaN(speed_multiplier)
    /\ Exit(1)
    /\ UNCHANGED <<mainFixed, modeVars, lyrics, offset, start_time, genre_config,
                   speed_multiplier, genre_key, exported, mode_begun, completions>>

\* animate_completion(completion_ms); main returns.
Completion ==
    /\ main_pc = "completion"
    /\ completions' = completions + 1
    /\ Exit(0)
    /\ UNCHANGED <<mainFixed, modeVars, lyrics, offset, start_time, genre_config,
                   speed_multiplier, genre_key, exported, mode_begun>>

NextMain ==
    \/ GenreUnknown
    \/ GenreFound
    \/ TimesParsed
    \/ TimesRefused
    \/ SpeedRejected
    \/ SpeedAccepted
    \/ ParseUnreadable
    \/ ParseEmpty
    \/ ParseOk
    \/ Export
    \/ BeginMode
    \/ ModeEmits
    \/ Interrupt
    \/ Caught
    \/ ModeEnds
    \/ ModeRaises
    \/ Completion

SpecMain == InitMain /\ [][NextMain]_vars

\* main is one thread that nothing blocks once the exception has reached its
\* except clause: the notice is printed and the completion bar runs.
FairMain == SpecMain /\ WF_vars(Caught) /\ WF_vars(Completion)

-----------------------------------------------------------------------------
(* lrc_time_to_seconds and seconds_to_lrc_time                             *)

\* str(k) for k >= 0
RECURSIVE Str(_)
Str(k) == IF k < 10 THEN <<Digits[k + 1]>> ELSE Str(k \div 10) \o <<Digits[(k % 10) + 1]>>

\* f"{k:02d}": at least two digits
Format02d(k) == IF k < 10 THEN <<"0">> \o Str(k) ELSE Str(k)

\* round(x) for x >= 0: to the nearest integer, a half to the even one.
Round(x) ==
    LET f == Floor(x)
        r == RSub(x, RInt(f))
    IN  IF RLt(r, R(1, 2)) THEN f
        ELSE IF RLt(R(1, 2), r) THEN f + 1
        ELSE IF f % 2 = 0 THEN f ELSE f + 1

\* A formatter that prints the rounded centiseconds as they come.
SecondsToLrcTimeNoRollover(s) ==
    LET t == IF RLt(s, RInt(0)) THEN RInt(0) ELSE s
        minutes == Floor(RDiv(t, RInt(60)))
        seconds == Floor(RSub(t, RInt(60 * minutes)))
        centiseconds == Round(RMul(RSub(t, RInt(Floor(t))), RInt(100)))
    IN  Format02d(minutes) \o <<":">> \o Format02d(seconds) \o <<".">>
            \o Format02d(centiseconds)

\* seconds_to_lrc_time(sec)
SecondsToLrcTime(s) ==
    LET t == IF RLt(s, RInt(0)) THEN RInt(0) ELSE s
        minutes == Floor(RDiv(t, RInt(60)))
        seconds == Floor(RSub(t, RInt(60 * minutes)))
        centiseconds == Round(RMul(RSub(t, RInt(Floor(t))), RInt(100)))
        rollover == centiseconds = 100
        seconds1 == IF rollover THEN seconds + 1 ELSE seconds
        centiseconds1 == IF rollover THEN 0 ELSE centiseconds
        carry == rollover /\ seconds1 = 60
        minutes2 == IF carry THEN minutes + 1 ELSE minutes
        seconds2 == IF carry THEN 0 ELSE seconds1
    IN  Format02d(minutes2) \o <<":">> \o Format02d(seconds2) \o <<".">>
            \o Format02d(centiseconds1)

\* str.strip("[]")
RECURSIVE StripBrackets(_)
StripBrackets(t) ==
    IF t # <<>> /\ Head(t) \in {"[", "]"} THEN StripBrackets(Tail(t))
    ELSE IF t # <<>> /\ t[Len(t)] \in {"[", "]"}
    THEN StripBrackets(SubSeq(t, 1, Len(t) - 1))
    ELSE t

Contains(t, c) == \E i \in 1..Len(t) : t[i] = c

\* float(t) for a text of digits with at most one point in it
Float(t) ==
    LET parts == SplitOn(t, ".")
    IN  IF Len(parts) = 1 THEN RInt(ToInt(parts[1]))
        ELSE RAdd(RInt(ToInt(parts[1])),
                  R(ToInt(parts[2]), 10 ^ Len(parts[2])))

\* lrc_time_to_seconds(t), for the texts it does not raise on: digits around one
\* colon and at most one point.
LrcTimeToSeconds(text) ==
    LET t == StripBrackets(Strip(text))
    IN  IF Contains(t, ":")
        THEN LET parts == SplitOn(t, ":")
                 minutes == ToInt(parts[1])
                 seconds_part == parts[2]
             IN  IF Contains(seconds_part, ".")
                 THEN LET seconds == ToInt(SplitOn(seconds_part, ".")[1])
                          frac == SplitOn(seconds_part, ".")[2]
                      IN  IF Len(frac) = 2
                          THEN RAdd(RInt(minutes * 60 + seconds), R(ToInt(frac), 100))
                          ELSE RAdd(RInt(minutes * 60 + seconds), R(ToInt(frac), 1000))
                 ELSE RInt(minutes * 60 + ToInt(seconds_part))
        ELSE Float(t)

\* The seconds put through the codec: every thousandth of a second of the
\* first and the last second of a minute, in the minutes around the places
\* where the text changes shape, and one time before zero.
CodecMinutes == {0, 9, 59, 99, 100}
CodecSeconds == {0, 59}
CodecInputs ==
    { RAdd(RInt(60 * mi + se), R(th, 1000)) :
        mi \in CodecMinutes, se \in CodecSeconds, th \in 0..999 }
    \cup {R(-1, 2)}

InitCodec ==
    /\ src_lines = <<>> /\ raw_lines = <<>> /\ line_no = 0 /\ parse_pc = "off"
    /\ lyrics = <<>>
    /\ config = DefaultConfig /\ offset = RInt(0) /\ start_time = <<>>
    /\ sched_out = <<>> /\ rt_out = <<>>
    /\ NoPlayback
    /\ NoMain
    /\ sec \in CodecInputs
    /\ lrc_time = <<>>
    /\ back = <<>>
    /\ codec_pc = "format"
    /\ result = [words |-> <<>>, captions |-> <<>>] /\ caption_no = 0
    /\ export_pc = "off"

codecFixed ==
    <<parseVars, argVars, schedVars, playArgVars, playVars, mainVars, exportVars, sec>>

\* lrc_time = seconds_to_lrc_time(sec)
FormatSeconds ==
    /\ codec_pc = "format"
    /\ lrc_time' = SecondsToLrcTime(sec)
    /\ codec_pc' = "parse"
    /\ UNCHANGED <<codecFixed, back>>

\* back = lrc_time_to_seconds(lrc_time)
ParseTimestamp ==
    /\ codec_pc = "parse"
    /\ back' = <<LrcTimeToSeconds(lrc_time)>>
    /\ codec_pc' = "done"
    /\ UNCHANGED <<codecFixed, lrc_time>>

NextCodec ==
    \/ FormatSeconds
    \/ ParseTimestamp

SpecCodec == InitCodec /\ [][NextCodec]_vars

-----------------------------------------------------------------------------
(* export_json                                                             *)

(* The times export_json computes are Python floats, and each of its        *)
(* operations rounds its exact result to the nearest float, a tie to the    *)
(* even one.  A float here has MantissaBits significant bits (Python's has  *)
(* 53) and no bound on its exponent; the times are not negative.            *)
MantissaBits == 8

\* 2^e as a rational
Scale(e) == IF e >= 0 THEN RInt(2 ^ e) ELSE R(1, 2 ^ (0 - e))

\* The exponent e of x > 0: 2^(MantissaBits - 1) <= x / 2^e < 2^MantissaBits.
RECURSIVE Exponent(_)
Exponent(x) ==
    IF Floor(x) >= 2 ^ MantissaBits THEN Exponent(R(x.n, 2 * x.d)) + 1
    ELSE IF Floor(x) < 2 ^ (MantissaBits - 1) THEN Exponent(R(2 * x.n, x.d)) - 1
    ELSE 0

\* The unit in the last place of the floats around x > 0.
Ulp(x) == Scale(Exponent(x))

\* x / 2^e
Unscaled(x, e) ==
    IF e >= 0 THEN R(x.n, x.d * (2 ^ e))
    ELSE LET g == GCD(2 ^ (0 - e), x.d)
         IN  R(x.n * ((2 ^ (0 - e)) \div g), x.d \div g)

\* The float nearest to x >= 0.
Fl(x) ==
    IF x.n = 0 THEN x
    ELSE LET e == Exponent(x)
             mantissa == Round(Unscaled(x, e))
         IN  IF e >= 0 THEN RInt(mantissa * (2 ^ e)) ELSE R(mantissa, 2 ^ (0 - e))

FAdd(a, b) == Fl(RAdd(a, b))
FSub(a, b) == Fl(RSub(a, b))
FMul(a, b) == Fl(RMul(a, b))
FDiv(a, b) == Fl(RDiv(a, b))

\* the literal 0.0001
MinDuration == Fl(R(1, 10000))

\* duration = max(0.0001, caption["end"] - caption["start"])
Duration(caption) == RMax(MinDuration, FSub(caption.end, caption.start))

\* A step that is the whole duration, however many words there are.
StepUndivided(caption, words) == Duration(caption)

\* step = duration / len(words) if words else duration
Step(caption, words) ==
    IF words # <<>> THEN FDiv(Duration(caption), RInt(Len(words)))
    ELSE Duration(caption)

\* The wt of the loop's turn with idx = k (0-based).
WordTiming(caption, words, k) ==
    LET step == Step(caption, words)
        word_start == FAdd(caption.start, FMul(RInt(k), step))
        word_end == FAdd(word_start, step)
    IN  [word |-> words[k + 1],
         start |-> word_start,
         end |-> word_end,
         start_time |-> SecondsToLrcTime(word_start),
         end_time |-> SecondsToLrcTime(word_end)]

\* word_timings after the inner loop
WordTimings(caption) ==
    LET words == SplitWords(caption.text)
    IN  [k \in 1..Len(words) |-> WordTiming(caption, words, k - 1)]

\* The dictionary appended to result["captions"].
Caption(caption) ==
    [start |-> caption.start,
     end |-> caption.end,
     start_time |-> SecondsToLrcTime(caption.start),
     end_time |-> SecondsToLrcTime(caption.end),
     text |-> caption.text,
     words |-> WordTimings(caption)]

\* Entry sequences handed to export_json: what parse_lrc returns for lines at
\* these times with these texts.  A time that occurs twice gives an entry whose
\* end is its start.
ExportStarts ==
    { <<RInt(0)>>, <<RInt(1)>>,
      <<RInt(0), RInt(2)>>, <<RInt(1), R(3, 2)>>, <<R(1, 2), R(5, 2)>>,
      <<RInt(2), RInt(2)>> }
ExportTexts ==
    { <<>>,
      <<"a">>,
      <<"b", " ", "c">>,
      <<"a", " ", "b", " ", "c">>,
      <<"a", "\n", "b", " ", " ", "c", " ", "d">> }
ExportLyrics ==
    UNION { { WithTexts(starts, texts) : texts \in [1..Len(starts) -> ExportTexts] } :
            starts \in ExportStarts }

InitExport ==
    /\ src_lines = <<>> /\ raw_lines = <<>> /\ line_no = 0 /\ parse_pc = "done"
    /\ lyrics \in ExportLyrics
    /\ config = DefaultConfig /\ offset = RInt(0) /\ start_time = <<>>
    /\ sched_out = <<>> /\ rt_out = <<>>
    /\ NoPlayback
    /\ NoMain
    /\ sec = RInt(0) /\ lrc_time = <<>> /\ back = <<>> /\ codec_pc = "off"
    /\ result = [words |-> <<>>, captions |-> <<>>]
    /\ caption_no = 0
    /\ export_pc = "loop"

exportFixed ==
    <<parseVars, argVars, schedVars, playArgVars, playVars, mainVars, codecVars>>

\* One turn of "for caption in lyrics": the words' timings, appended to
\* result["words"] one by one, then the caption, appended to result["captions"].
ExportCaption ==
    /\ export_pc = "loop"
    /\ caption_no < Len(lyrics)
    /\ LET caption == lyrics[caption_no + 1]
       IN  result' = [words |-> result.words \o WordTimings(caption),
                      captions |-> Append(result.captions, Caption(caption))]
    /\ caption_no' = caption_no + 1
    /\ UNCHANGED <<exportFixed, export_pc>>

\* After the loop, json.dump(result, f): a float is written with the digits
\* that read back as the same float.
DumpJson ==
    /\ export_pc = "loop"
    /\ caption_no = Len(lyrics)
    /\ export_pc' = "done"
    /\ UNCHANGED <<exportFixed, result, caption_no>>

NextExport ==
    \/ ExportCaption
    \/ DumpJson

SpecExport == InitExport /\ [][NextExport]_vars

-----------------------------------------------------------------------------
(* The parser's claims.                                                    *)

IsStampPiece(p) == p.ts
IsTextPiece(p) == ~p.ts
\* The timestamps written on a line, and the line without them.
StampsOf(line) == SelectSeq(line, IsStampPiece)
TextOf(line) == Render(SelectSeq(line, IsTextPiece))
\* The time a written timestamp denotes.
StampValue(p) == RAdd(RInt(60 * p.m + p.s), R(p.f, IF p.fd = 2 THEN 100 ELSE 1000))
IsLyricLine(line) == line \notin {ArtistTagLine, BlankLine}
Last(s) == s[Len(s)]

\* C1: the sequence parse_lrc returns is sorted ascending by start, and every
\* entry but the last ends where the next one starts.
C1_SortedAndChained ==
    parse_pc = "done" =>
        \A i \in 1..(Len(lyrics) - 1) :
            /\ RLe(lyrics[i].start, lyrics[i + 1].start)
            /\ lyrics[i].end = lyrics[i + 1].start

\* A returned sequence of three or more entries whose timestamps were written
\* out of order.
C1_Witness ==
    /\ parse_pc = "done"
    /\ Len(lyrics) >= 3
    /\ \E i, j \in 1..Len(src_lines) :
          /\ i < j
          /\ StampsOf(src_lines[i]) # <<>>
          /\ StampsOf(src_lines[j]) # <<>>
          /\ RLt(StampValue(StampsOf(src_lines[j])[1]), StampValue(StampsOf(src_lines[i])[1]))

\* C2: every entry of the returned sequence has end > start, also when a
\* timestamp occurs more than once.
C2_EndAfterStart ==
    parse_pc = "done" =>
        \A i \in 1..Len(lyrics) : RLt(lyrics[i].start, lyrics[i].end)

\* C3: the last entry of the returned sequence ends at
\* start + max(2.0, 0.1 * length(text)).
C3_LastEndEstimated ==
    (parse_pc = "done" /\ lyrics # <<>>) =>
        LET tenths == IF Len(Last(lyrics).text) > 20 THEN Len(Last(lyrics).text) ELSE 20
        IN  Last(lyrics).end = RAdd(Last(lyrics).start, R(tenths, 10))

\* The loop consumes a line that is no metadata and carries a timestamp.
C4_Step ==
    /\ parse_pc = "lines"
    /\ line_no' = line_no + 1
    /\ IsLyricLine(src_lines[line_no + 1])
    /\ StampsOf(src_lines[line_no + 1]) # <<>>

\* The step appends one entry per timestamp written on the line, in order,
\* each starting at its timestamp and carrying `text`; the rest is untouched.
C4_Appends(text) ==
    LET stamps == StampsOf(src_lines[line_no + 1])
    IN  /\ Len(lyrics') = Len(lyrics) + Len(stamps)
        /\ \A i \in 1..Len(lyrics) : lyrics'[i] = lyrics[i]
        /\ \A j \in 1..Len(stamps) :
              /\ lyrics'[Len(lyrics) + j].start = StampValue(stamps[j])
              /\ lyrics'[Len(lyrics) + j].text = text

\* C4: a line with k >= 1 timestamps creates exactly k entries, one per
\* timestamp, all with the line minus its timestamps as text.
C4_TextIsLineWithoutStamps ==
    [][C4_Step => C4_Appends(TextOf(src_lines[line_no + 1]))]_vars

\* C4 as amended: the text is the line minus its timestamps, with the white
\* space at both ends trimmed.
C4_TextIsTrimmed ==
    [][C4_Step => C4_Appends(Strip(TextOf(src_lines[line_no + 1])))]_vars

\* [00:01.00]hello[00:02.50] and then [00:02.50] bye have been consumed.
C4_Witness ==
    /\ parse_pc = "lines"
    /\ line_no = 2
    /\ src_lines[1] = HelloLine
    /\ src_lines[2] = ByeLine
    /\ Len(lyrics) = 3
    /\ lyrics[1].text = <<"h", "e", "l", "l", "o">> /\ lyrics[1].start = RInt(1)
    /\ lyrics[2].text = <<"h", "e", "l", "l", "o">> /\ lyrics[2].start = R(5, 2)
    /\ lyrics[3].text = <<"b", "y", "e">>

\* The loop consumes a line that is no metadata and carries no timestamp.
C5_Step ==
    /\ parse_pc = "lines"
    /\ line_no' = line_no + 1
    /\ IsLyricLine(src_lines[line_no + 1])
    /\ StampsOf(src_lines[line_no + 1]) = <<>>

\* C5: a line without a timestamp creates no entry; its text goes, after a
\* line break, to the end of the most recent entry's text and nowhere else, and
\* is dropped when there is no entry yet.
C5_Continuation ==
    [][C5_Step =>
        /\ Len(lyrics') = Len(lyrics)
        /\ \A i \in 1..Len(lyrics) :
              /\ lyrics'[i].start = lyrics[i].start
              /\ lyrics'[i].end = lyrics[i].end
              /\ lyrics'[i].text =
                    IF i = Len(lyrics)
                    THEN lyrics[i].text \o <<"\n">> \o TextOf(src_lines[line_no + 1])
                    ELSE lyrics[i].text]_vars

\* "more" has been consumed after a line that made two entries.
C5_Witness ==
    /\ parse_pc = "lines"
    /\ line_no = 2
    /\ src_lines[1] = HelloLine
    /\ src_lines[2] = MoreLine
    /\ Len(lyrics) = 2
    /\ lyrics[1].text = <<"h", "e", "l", "l", "o">>
    /\ lyrics[2].text = <<"h", "e", "l", "l", "o", "\n", "m", "o", "r", "e">>

-----------------------------------------------------------------------------
(* The transform's claims.                                                 *)

Two == RInt(2)
One == RInt(1)

\* Every start computed at speed multiplier 2.0 is half the start computed for
\* the same entry at 1.0, in the runs of both modes that have been made.
HalvedAtDoubleSpeed ==
    /\ (sched_out[Two] # <<>> /\ sched_out[One] # <<>>) =>
          \A i \in 1..Len(lyrics) :
              RMul(Two, sched_out[Two][i].start) = sched_out[One][i].start
    /\ (rt_out[Two] # <<>> /\ rt_out[One] # <<>>) =>
          \A i \in 1..Len(lyrics) :
              RMul(Two, rt_out[Two][i].start) = rt_out[One][i].start

\* C6: with offset 0, speed multiplier 2.0 halves every entry's absolute start
\* relative to 1.0, whatever start_time is.
C6_HalvedForEveryStartTime ==
    offset = RInt(0) => HalvedAtDoubleSpeed

\* C6 as amended: with offset 0 and start_time absent or 0.
C6_HalvedFromZeroBaseline ==
    (offset = RInt(0) /\ Baseline(start_time) = RInt(0)) => HalvedAtDoubleSpeed

\* Both modes have run at 1.0 and at 2.0 on three entries with offset 0 and no
\* start_time, and the last entry is targeted later than the first.
C6_Witness ==
    /\ offset = RInt(0)
    /\ start_time = <<>>
    /\ Len(lyrics) = 3
    /\ sched_out[Two] # <<>> /\ sched_out[One] # <<>>
    /\ rt_out[Two] # <<>> /\ rt_out[One] # <<>>
    /\ rt_out[One][3].start = R(121, 2)
    /\ rt_out[Two][3].start = R(121, 4)
    /\ sched_out[Two][2].start = RInt(1)

\* C9: for the same entries and transform, print_schedule's start of each entry
\* is the absolute start play_realtime targets, and the readout shown is the
\* same.
C9_ScheduleMatchesRealtime ==
    \A sp \in Speeds :
        (sched_out[sp] # <<>> /\ rt_out[sp] # <<>>) =>
            \A i \in 1..Len(lyrics) :
                /\ sched_out[sp][i].start = rt_out[sp][i].start
                /\ config.show_time_display =>
                      sched_out[sp][i].time_display = rt_out[sp][i].time_display

\* Both modes have run at 1.5 with an offset, a start_time and a configured
\* start offset, on three entries, the readout shown.
C9_Witness ==
    /\ offset = R(5, 4)
    /\ start_time = <<RInt(2)>>
    /\ config.show_time_display
    /\ config.lrc_start_minute = 1
    /\ Len(lyrics) = 3
    /\ lyrics[1].start = R(1, 2) /\ lyrics[3].start = RInt(61)
    /\ sched_out[R(3, 2)] # <<>>
    /\ rt_out[R(3, 2)] # <<>>
    /\ rt_out[R(3, 2)][3].start = R(523, 12)
    /\ rt_out[R(3, 2)][3].time_display = <<<<2, 13>>>>

-----------------------------------------------------------------------------
(* The scheduler's claims.                                                 *)

\* C7: before each wrapped line is animated the drift is the time since
\* playback start minus the entry's absolute start, as it is then; the delay
\* for that line is max(base / min(3, 1 + 2 * drift), 0.001) when the drift is
\* positive and base = genre speed / speed multiplier when it is not.
C7_DriftCompensation ==
    play_pc = "animate" =>
        LET base == RDiv(genre_config.speed, speed_multiplier)
            drift == RSub(now, absolute_start)
            linear == RAdd(RInt(1), RMul(RInt(2), drift))
            factor == IF RLt(linear, RInt(3)) THEN linear ELSE RInt(3)
            quick == RDiv(base, factor)
        IN  /\ current_drift = drift
            /\ current_speed =
                  IF RLt(RInt(0), drift)
                  THEN (IF RLt(quick, R(1, 1000)) THEN R(1, 1000) ELSE quick)
                  ELSE base

\* The second wrapped line of an entry is about to be animated exactly 1.0 s
\* behind, at a third of the base delay.
C7_Witness ==
    /\ play_pc = "animate"
    /\ Len(sub_lines) = 1
    /\ lyrics[idx + 1].text = <<"a", "a", " ", "b", "b">>
    /\ current_drift = RInt(1)
    /\ RLt(RInt(0), current_speed)
    /\ RMul(RInt(3), current_speed) = base_speed
    /\ base_speed = R(85, 1000)

\* The entries whose emission has begun are the first ones, in order.
EmittedInOrder == emitted = [i \in 1..Len(emitted) |-> i - 1]

\* An entry about to be emitted, and how the loop got there: with its start
\* ahead it asked time.sleep for exactly the remainder and it is now `arrival`;
\* with its start not ahead it did not sleep.
C8_Begins(arrival) ==
    /\ EmittedInOrder
    /\ play_pc = "emit" =>
          /\ RLe(absolute_start, now)
          /\ IF RLt(elapsed, absolute_start)
             THEN /\ slept = <<RSub(absolute_start, elapsed)>>
                  /\ now = arrival
             ELSE /\ slept = <<>>
                  /\ now = elapsed

\* C8: entries are emitted in order, never before their absolute start; an
\* entry reached early is slept for exactly and begins exactly at its absolute
\* start, an entry reached late begins at once.
C8_BeginsExactlyAtStart == C8_Begins(absolute_start)

\* C8 as amended: an entry reached early begins at its absolute start plus
\* whatever time.sleep took beyond the time asked: exactly at its absolute
\* start when the sleep takes exactly that long.
C8_BeginsAtStartPlusOversleep == C8_Begins(RAdd(absolute_start, overslept))

\* The second entry, reached 1.1 s early after the first took 0.9 s, begins at
\* its absolute start of 2.0 s.
C8_Witness ==
    /\ play_pc = "emit"
    /\ idx = 1
    /\ emitted = <<0>>
    /\ elapsed = R(9, 10)
    /\ slept = <<R(11, 10)>>
    /\ overslept = RInt(0)
    /\ absolute_start = RInt(2)
    /\ now = RInt(2)

\* C14: with a positive drift the delay per character used for a wrapped line
\* is no greater than the base delay, genre speed / speed multiplier, and no
\* smaller than a third of it.
C14_OnlySpeedsUp ==
    (play_pc = "animate" /\ RLt(RInt(0), RSub(now, absolute_start))) =>
        LET base == RDiv(genre_config.speed, speed_multiplier)
        IN  /\ RLe(current_speed, base)
            /\ RLe(RDiv(base, RInt(3)), current_speed)

-----------------------------------------------------------------------------
(* main's claims.                                                          *)

\* The three conditions, read off the command line, the configuration and the
\* file.
GenreExists ==
    LowerName(IF args.genre # <<>> THEN args.genre ELSE config.default_genre)
        \in DOMAIN config.genres
SpeedAboveZero ==
    args.speed # <<>> => (~IsNaN(args.speed[1]) /\ RLt(RInt(0), args.speed[1]))
ParserReturnsEntries == file.readable /\ file.entries # <<>>

\* C10: a mode begins only if the genre exists, the speed multiplier is > 0 and
\* the parser returned an entry; when one of these fails the run ends with a
\* nonzero status and has neither begun a mode nor exported JSON.
C10_ValidatedBeforePlayback ==
    /\ mode_begun # "none" => (GenreExists /\ SpeedAboveZero /\ ParserReturnsEntries)
    /\ ~(GenreExists /\ SpeedAboveZero /\ ParserReturnsEntries) =>
          /\ mode_begun = "none"
          /\ ~exported
          /\ main_pc = "exited" => exit_status # <<0>>

\* What holds at every moment of a run with respect to the interrupt.
C11_Safe ==
    /\ completions <= 1
    /\ interrupted # <<>> =>
          /\ Len(emitted) = interrupted[1]
          /\ caught_in = "main"
          /\ main_pc \in {"except", "completion", "exited"}
          /\ main_pc = "exited" => (completions = 1 /\ exit_status = <<0>>)
    /\ (interrupted = <<>> /\ main_pc = "exited" /\ Len(emitted) = Len(lyrics)
          /\ mode_begun # "none" /\ exit_status = <<0>>) => completions = 1

\* C11: once KeyboardInterrupt is raised while play_realtime or print_schedule
\* runs, no further entry is emitted, the except clause of main is the one that
\* takes it, and animate_completion then runs, exactly once, before the process
\* ends with status 0, as after a playback that was not interrupted.
C11_InterruptEndsGracefully ==
    /\ []C11_Safe
    /\ (interrupted # <<>>) ~> (main_pc = "exited" /\ completions = 1)

\* play_realtime was interrupted after the first of three entries, and the run
\* has ended with the completion bar shown once.
C11_Witness ==
    /\ mode_begun = "realtime"
    /\ Len(lyrics) = 3
    /\ interrupted = <<1>>
    /\ emitted = <<0>>
    /\ caught_in = "main"
    /\ main_pc = "exited"
    /\ completions = 1
    /\ exit_status = <<0>>

-----------------------------------------------------------------------------
(* The codec's claims.                                                     *)

-----------------------------------------------------------------------------
(* export_json's claims.                                                   *)

\* The per-entry word lists of the captions, one after the other.
RECURSIVE Concatenation(_)
Concatenation(captions) ==
    IF captions = <<>> THEN <<>>
    ELSE Head(captions).words \o Concatenation(Tail(captions))

\* Two times no further apart than `units` units in the last place.
Within(units, a, b) ==
    \/ a = b
    \/ /\ units > 0
       /\ LET gap == IF RLt(a, b) THEN RSub(b, a) ELSE RSub(a, b)
          IN  RLe(gap, RMul(RInt(units), Ulp(RMax(a, b))))

\* The subdivision of every exported entry, in the arithmetic of floats, with
\* a word's end and the next word's start no further apart than `units` units
\* in the last place.
C13_Subdivision(units) ==
    /\ Len(result.captions) = caption_no
    /\ \A i \in 1..Len(result.captions) :
          LET entry == lyrics[i]
              ws == result.captions[i].words
              words == SplitWords(entry.text)
              n == Len(words)
              length == FSub(entry.end, entry.start)
              floor == Fl(R(1, 10000))
              step == FDiv(IF RLt(length, floor) THEN floor ELSE length, RInt(n))
          IN  /\ Len(ws) = n
              /\ n >= 1 =>
                    /\ ws[1].start = entry.start
                    /\ \A k \in 0..(n - 1) :
                          /\ ws[k + 1].word = words[k + 1]
                          /\ ws[k + 1].start = FAdd(entry.start, FMul(RInt(k), step))
                          /\ ws[k + 1].end = FAdd(ws[k + 1].start, step)
                    /\ \A k \in 1..(n - 1) : Within(units, ws[k].end, ws[k + 1].start)
    /\ result.words = Concatenation(result.captions)

\* C13: word k of an entry of n >= 1 words has start = entry.start + k * step
\* and end = start + step with step = max(0.0001, entry.end - entry.start) / n;
\* the first word starts at entry.start, every word's end is the next word's
\* start, and the flat list of words is the entries' lists one after the other.
C13_WordsAbut == C13_Subdivision(0)

\* C13 as amended: the same, but a word's end, (entry.start + k * step) + step,
\* and the next word's start, entry.start + (k + 1) * step, are two float
\* computations of one instant and agree to within two units in the last place.
C13_WordsAbutToRounding == C13_Subdivision(2)

\* The entries {0, 2, "a"} and {2, 5, "b c"} have been exported: step 1.5 for
\* the second, b from 2.0 to 3.5 and c from 3.5 to 5.0.
C13_Witness ==
    /\ export_pc = "done"
    /\ Len(lyrics) = 2
    /\ lyrics[2].start = RInt(2) /\ lyrics[2].end = RInt(5)
    /\ lyrics[2].text = <<"b", " ", "c">>
    /\ Len(result.words) = 3
    /\ result.words[2].word = <<"b">>
    /\ result.words[2].start = RInt(2) /\ result.words[2].end = R(7, 2)
    /\ result.words[3].word = <<"c">>
    /\ result.words[3].start = R(7, 2) /\ result.words[3].end = RInt(5)
    /\ result.captions[2].words = SubSeq(result.words, 2, 3)

====
